---------------------------- MODULE Spec2Model ----------------------------
(***************************************************************************)
(* A model of cnpy: the codec for single-array files (.npy) and for the    *)
(* zip archives that bundle them (.npz).                                   *)
(*                                                                         *)
(* Files are sequences of bytes (integers 0..255); text is the sequence of *)
(* its ASCII codes.  Stream positions are counted in bytes already         *)
(* consumed, so position p means "the next byte is bytes[p+1]".            *)
(* The host is little-endian and LP64, as the library assumes when it      *)
(* reinterprets record fields in place.                                    *)
(***************************************************************************)
EXTENDS Integers, Sequences, FiniteSets, TLC

VARIABLES
    npy,      \* the single-array file on disk
    npz,      \* the archive file on disk
    header,   \* the vector returned by the last direct create_npy_header call
    arr,      \* the NpyArray returned by the last npy_load (NullArray when it threw)
    arrays,   \* the npz_t returned by the last npz_load (empty when it threw)
    last,     \* the last step: its name, its arguments and whether it threw
    chain,    \* the append sequence in progress on npy and what it should have built
    saved     \* the entries put into npz since it was created, in order

vars == <<npy, npz, header, arr, arrays, last, chain, saved>>

--------------------------------------------------------------------------
(* Bounds of the model                                                     *)

MaxDim == 3          \* dimension sizes of the small shapes are 1..MaxDim
MaxRank == 2         \* ranks of the small shapes are 1..MaxRank
BigRank == 21824     \* rank of the first all-ones shape near the 65535 limit

--------------------------------------------------------------------------
(* Bytes, text and streams                                                 *)

Min2(a, b) == IF a < b THEN a ELSE b

npos == -1

IsDigit(c) == c >= 48 /\ c <= 57

IsSpace(c) == c = 32 \/ (c >= 9 /\ c <= 13)

\* n copies of the byte c
Fill(n, c) == [i \in 1..n |-> c]

\* istream::read of n bytes at position pos: the bytes actually delivered
ReadN(b, pos, n) == SubSeq(b, pos + 1, Min2(pos + n, Len(b)))

\* operator+= for uint16_t: two bytes, least significant first
LE16(x) == <<x % 256, (x \div 256) % 256>>

\* operator+= for uint32_t: four bytes, least significant first
LE32(x) == <<x % 256, (x \div 256) % 256, (x \div 65536) % 256, (x \div 16777216) % 256>>

\* the integer a little-endian field holds; bytes a short read did not
\* deliver stay zero
RECURSIVE LEValue(_)
LEValue(bs) == IF bs = <<>> THEN 0 ELSE bs[1] + 256 * LEValue(Tail(bs))

\* std::to_string of an unsigned integer
RECURSIVE to_string(_)
to_string(n) == IF n < 10 THEN <<48 + n>> ELSE to_string(n \div 10) \o <<48 + (n % 10)>>

\* the least element of a set of indices, or none when the set is empty
LeastOr(S, none) == IF S = {} THEN none ELSE CHOOSE i \in S : \A k \in S : i <= k

\* std::string::find: index (from 0) of the first occurrence, or npos
Find(hay, needle) ==
    LeastOr({i \in 0..(Len(hay) - Len(needle)) :
                /\ hay[i + 1] = needle[1]
                /\ \A j \in 2..Len(needle) : hay[i + j] = needle[j]}, npos)

\* value of the digit run of s that starts at index i (from 1)
RECURSIVE RunValue(_, _, _)
RunValue(s, i, acc) ==
    IF i <= Len(s) /\ IsDigit(s[i]) THEN RunValue(s, i + 1, 10 * acc + (s[i] - 48)) ELSE acc

\* the loop of regex_search for [0-9]+ with std::stoul: the values of the
\* maximal digit runs that start in s[lo..hi], in order
RECURSIVE Nums(_, _, _)
Nums(s, lo, hi) ==
    IF lo > hi THEN <<>>
    ELSE IF lo = hi
         THEN IF IsDigit(s[lo]) /\ (lo = 1 \/ ~IsDigit(s[lo - 1]))
              THEN <<RunValue(s, lo, 0)>> ELSE <<>>
         ELSE LET mid == (lo + hi) \div 2
              IN  Nums(s, lo, mid) \o Nums(s, mid + 1, hi)

NumsOf(s) == Nums(s, 1, Len(s))

\* std::accumulate(..., 1, multiplies): product of shape[lo..hi]
RECURSIVE Prod(_, _, _)
Prod(shape, lo, hi) ==
    IF lo > hi THEN 1
    ELSE IF lo = hi THEN shape[lo]
         ELSE LET mid == (lo + hi) \div 2
              IN  Prod(shape, lo, mid) * Prod(shape, mid + 1, hi)

--------------------------------------------------------------------------
(* Element types                                                           *)

ElementTypes ==
    {"float", "double", "long double", "int", "char", "short", "long",
     "long long", "unsigned char", "unsigned short", "unsigned long",
     "unsigned long long", "unsigned int", "bool", "complex<float>",
     "complex<double>", "complex<long double>"}

\* the type character of the descr field
map_type(T) ==
    IF T \in {"float", "double", "long double"} THEN 102                     \* 'f'
    ELSE IF T \in {"int", "char", "short", "long", "long long"} THEN 105     \* 'i'
    ELSE IF T \in {"unsigned char", "unsigned short", "unsigned long",
                   "unsigned long long", "unsigned int"} THEN 117            \* 'u'
    ELSE IF T = "bool" THEN 98                                               \* 'b'
    ELSE IF T \in {"complex<float>", "complex<double>",
                   "complex<long double>"} THEN 99                           \* 'c'
    ELSE 63                                                                  \* '?'

\* sizeof(T)
SizeOf(T) ==
    IF T \in {"char", "unsigned char", "bool"} THEN 1
    ELSE IF T \in {"short", "unsigned short"} THEN 2
    ELSE IF T \in {"float", "int", "unsigned int"} THEN 4
    ELSE IF T \in {"double", "long", "long long", "unsigned long",
                   "unsigned long long", "complex<float>"} THEN 8
    ELSE IF T \in {"long double", "complex<double>"} THEN 16
    ELSE 32

\* '<' : the first byte of the integer 1 is non-zero
BigEndianTest == 60

--------------------------------------------------------------------------
(* The array value                                                         *)

\* NpyArray(shape, word_size, fortran_order) with its buffer filled
NpyArray(shape, word_size, fortran_order, data) ==
    [shape |-> shape, word_size |-> word_size, fortran_order |-> fortran_order,
     num_vals |-> Prod(shape, 1, Len(shape)), data |-> data]

\* NpyArray(): what a caller holds when no array was returned
NullArray ==
    [shape |-> <<>>, word_size |-> 0, fortran_order |-> FALSE, num_vals |-> 0, data |-> <<>>]

--------------------------------------------------------------------------
(* Header codec: create_npy_header                                         *)

numpy_magic == <<147, 78, 85, 77, 80, 89>>            \* "\x93NUMPY"

numpy_magic_length == 6

DescrOpen == <<123, 39, 100, 101, 115, 99, 114, 39, 58, 32, 39>>   \* {'descr': '

OrderFalse ==                                 \* ', 'fortran_order': False, 'shape': (
    <<39, 44, 32, 39, 102, 111, 114, 116, 114, 97, 110, 95, 111, 114, 100, 101, 114,
      39, 58, 32, 70, 97, 108, 115, 101, 44, 32, 39, 115, 104, 97, 112, 101, 39, 58, 32, 40>>

DictClose == <<41, 44, 32, 125>>                                   \* ), }

\* to_string(shape[0]) followed by ", " + to_string(shape[i]) for i >= 1;
\* the halves are joined in index order, which is the order of the loop
RECURSIVE DimsText(_, _, _)
DimsText(shape, lo, hi) ==
    IF lo = hi
    THEN IF lo = 1 THEN to_string(shape[1]) ELSE <<44, 32>> \o to_string(shape[lo])
    ELSE LET mid == (lo + hi) \div 2
         IN  DimsText(shape, lo, mid) \o DimsText(shape, mid + 1, hi)

\* the dictionary before padding
DictText(T, shape) ==
    DescrOpen \o <<BigEndianTest, map_type(T)>> \o to_string(SizeOf(T)) \o OrderFalse
      \o DimsText(shape, 1, Len(shape))
      \o (IF Len(shape) = 1 THEN <<44>> ELSE <<>>) \o DictClose

\* the number of padding bytes (the last one becomes the newline)
Remainder(big_header, dictLen) ==
    64 - ((numpy_magic_length + (IF big_header THEN 4 ELSE 2) + dictLen + 1) % 64)

\* whether the 4-byte length field and version 2.0 are used
BigHeader(dictLen) == dictLen + 1 > 65535

\* lines 136-147: magic, version, length field, dictionary
FrameHeader(big_header, dict) ==
    numpy_magic \o <<(IF big_header THEN 2 ELSE 1), 0>>
      \o (IF big_header THEN LE32(Len(dict)) ELSE LE16(Len(dict)))
      \o dict

\* lines 131-134: the padding, whose last byte becomes the newline
PadDict(dict0, big_header) ==
    FrameHeader(big_header,
                dict0 \o Fill(Remainder(big_header, Len(dict0)) - 1, 32) \o <<10>>)

HeaderOfDict(dict0) == PadDict(dict0, BigHeader(Len(dict0)))

create_npy_header(T, shape) == HeaderOfDict(DictText(T, shape))

--------------------------------------------------------------------------
(* Header codec: parse_npy_header                                          *)

Tok_fortran_order == <<102, 111, 114, 116, 114, 97, 110, 95, 111, 114, 100, 101, 114>>

Tok_True == <<84, 114, 117, 101>>

Tok_descr == <<100, 101, 115, 99, 114>>

Throw(msg) ==
    [ok |-> FALSE, err |-> msg, word_size |-> 0, shape |-> <<>>,
     fortran_order |-> FALSE, pos |-> 0]

\* std::stoul: leading white space, an optional '+', then the digits
StoulAt(s, i0) ==
    IF i0 <= Len(s) /\ IsDigit(s[i0]) THEN [ok |-> TRUE, value |-> RunValue(s, i0, 0)]
    ELSE IF i0 < Len(s) /\ s[i0] = 43 /\ IsDigit(s[i0 + 1])
         THEN [ok |-> TRUE, value |-> RunValue(s, i0 + 1, 0)]
    ELSE [ok |-> FALSE, value |-> 0]

Stoul(s) == StoulAt(s, LeastOr({i \in 1..Len(s) : ~IsSpace(s[i])}, Len(s) + 1))

\* lines 159-163: the word size, from the text that follows the type character
ParseWordSize(str_ws, q, shape, fortran_order, endpos) ==
    LET ws == Stoul(IF q = npos THEN str_ws ELSE SubSeq(str_ws, 1, q))
    IN  IF ~ws.ok THEN Throw("stoul")
        ELSE [ok |-> TRUE, err |-> "", word_size |-> ws.value, shape |-> shape,
              fortran_order |-> fortran_order, pos |-> endpos]

\* lines 129-163, with the positions of the four tokens
ParseTokens(text, endpos, locF, locL, locR, locD) ==
    LET n == Len(text)
        e == locD + 9
    IN  IF locF = npos THEN Throw("parse_npy_header: missing 'fortran_order'")
        ELSE IF locF + 16 > n THEN Throw("basic_string::substr")
        ELSE IF locL = npos \/ locR = npos THEN Throw("parse_npy_header: missing '(' or ')'")
        ELSE IF locD = npos THEN Throw("parse_npy_header: missing 'descr'")
        \* past the end the endian test or the following substr throws
        ELSE IF e >= n THEN Throw("parse_npy_header: endian check failed")
        ELSE IF text[e + 1] # 60 /\ text[e + 1] # 124
             THEN Throw("parse_npy_header: endian check failed")
        ELSE IF e + 2 > n THEN Throw("basic_string::substr")
        ELSE ParseWordSize(
                 SubSeq(text, e + 3, n),
                 Find(SubSeq(text, e + 3, n), <<39>>),
                 \* substr(loc1 + 1, loc2 - loc1 - 1); the count wraps to "the
                 \* rest" when ')' comes before '('
                 NumsOf(SubSeq(text, locL + 2, IF locR > locL THEN locR ELSE n)),
                 SubSeq(text, locF + 17, Min2(locF + 20, n)) = Tok_True,
                 endpos)

\* lines 124-163: the three tokens of the header text; endpos is the stream
\* position after the text
ParseDict(text, endpos) ==
    ParseTokens(text, endpos, Find(text, Tok_fortran_order), Find(text, <<40>>),
                Find(text, <<41>>), Find(text, Tok_descr))

\* lines 120-122: the header text as read
ParseText(text, header_length, endpos) ==
    IF Len(text) # header_length
    THEN Throw("parse_npy_header: failed to read data for header")
    \* an empty header: header[size - 1] is read out of bounds, and whatever
    \* it holds the call throws, here or at the first token
    ELSE IF header_length = 0
         THEN Throw("parse_npy_header: failed to read data for header, or missing 'fortran_order'")
    ELSE IF text[header_length] # 10
         THEN Throw("parse_npy_header: failed to read data for header")
    ELSE ParseDict(text, endpos)

\* lines 96-118: the length field, lenBytes wide, at position p0 + 8
ParseLength(b, p0, lenBytes, field) ==
    IF Len(b) < p0 + 8 \/ Len(field) # lenBytes THEN Throw("Cannot read header length")
    ELSE ParseText(ReadN(b, p0 + 8 + lenBytes, LEValue(field)), LEValue(field),
                   p0 + 8 + lenBytes + LEValue(field))

\* lines 92-115: the version bytes; a byte that could not be read stays 0
ParseVersion(b, p0, major, minor) ==
    IF major = 1 /\ minor = 0
    THEN ParseLength(b, p0, 2, IF Len(b) >= p0 + 8 THEN ReadN(b, p0 + 8, 2) ELSE <<>>)
    ELSE IF major = 2 /\ minor = 0
    THEN ParseLength(b, p0, 4, IF Len(b) >= p0 + 8 THEN ReadN(b, p0 + 8, 4) ELSE <<>>)
    ELSE Throw("Numpy version not supported.")

\* lines 87-90: the magic, zero-filled where the read fell short
ReadMagic(b, p0) ==
    ReadN(b, p0, numpy_magic_length)
      \o Fill(numpy_magic_length - Len(ReadN(b, p0, numpy_magic_length)), 0)

\* the stream b is read from position p0
parse_npy_header(b, p0) ==
    IF ReadMagic(b, p0) # numpy_magic
    THEN Throw("Not a Numpy file as magic number does not match")
    ELSE ParseVersion(b, p0,
                      IF Len(b) >= p0 + 7 THEN b[p0 + 7] ELSE 0,
                      IF Len(b) >= p0 + 8 THEN b[p0 + 8] ELSE 0)

--------------------------------------------------------------------------
(* Single-array reader: load_the_npy_file, npy_load                        *)

NoFile == [exists |-> FALSE, bytes |-> <<>>]

FileOf(b) == [exists |-> TRUE, bytes |-> b]

LoadThrow(msg) == [ok |-> FALSE, err |-> msg, arr |-> NullArray, pos |-> 0]

\* the payload taken as read however many bytes the stream had left
LoadPayload_unchecked(b, h, num_bytes) ==
    [ok |-> TRUE, err |-> "",
     arr |-> NpyArray(h.shape, h.word_size, h.fortran_order, ReadN(b, h.pos, num_bytes)),
     pos |-> h.pos + num_bytes]

\* lines 199-204: the payload of the array the header h describes
LoadPayload(b, h, num_bytes) ==
    IF Len(ReadN(b, h.pos, num_bytes)) # num_bytes
    THEN LoadThrow("load_the_npy_file: failed fread")
    ELSE [ok |-> TRUE, err |-> "",
          arr |-> NpyArray(h.shape, h.word_size, h.fortran_order, ReadN(b, h.pos, num_bytes)),
          pos |-> h.pos + num_bytes]

LoadWithHeader(b, h) ==
    IF ~h.ok THEN LoadThrow(h.err)
    ELSE LoadPayload(b, h, Prod(h.shape, 1, Len(h.shape)) * h.word_size)

\* the stream b is read from position p0; pos is the position afterwards
load_the_npy_file(b, p0) == LoadWithHeader(b, parse_npy_header(b, p0))

npy_load(f) ==
    IF ~f.exists THEN LoadThrow("File does not exist")
    ELSE load_the_npy_file(f.bytes, 0)

--------------------------------------------------------------------------
(* Single-array writer: npy_save                                           *)

\* write of w at position pos of an open file: bytes under w are replaced,
\* the file grows when w reaches past its end
WriteAt(b, pos, w) ==
    SubSeq(b, 1, pos) \o w \o SubSeq(b, pos + Len(w) + 1, Len(b))

SaveResult(ok, err, f) == [ok |-> ok, err |-> err, file |-> f]

\* lines 197-205: header at offset 0, data at the end
WriteNpy(existing, T, data, shape, true_data_shape) ==
    SaveResult(TRUE, "",
               FileOf(WriteAt(existing, 0, create_npy_header(T, true_data_shape))
                        \o SubSeq(data, 1, SizeOf(T) * Prod(shape, 1, Len(shape)))))

OrderRefused_accepting(fortran_order) == fortran_order

\* whether the append branch refuses the existing file for its order flag
OrderRefused(fortran_order) == ~fortran_order

\* lines 163-185: the append branch, h being the parsed header of the file
AppendChecked(f, h, T, data, shape) ==
    IF ~h.ok THEN SaveResult(FALSE, h.err, f)
    ELSE IF OrderRefused(h.fortran_order)
         THEN SaveResult(FALSE, "Appending to existing fortran-order file not supported", f)
    ELSE IF h.word_size # SizeOf(T)
         THEN SaveResult(FALSE, "Appending to existing file with wrong word size", f)
    ELSE IF Len(h.shape) # Len(shape)
         THEN SaveResult(FALSE, "Appending to existing file with wrong shape", f)
    ELSE IF \E i \in 2..Len(shape) : shape[i] # h.shape[i]
         THEN SaveResult(FALSE, "Appending to existing data with wrong dimension", f)
    ELSE WriteNpy(f.bytes, T, data, shape, [h.shape EXCEPT ![1] = h.shape[1] + shape[1]])

npy_save(f, T, data, shape, mode) ==
    IF f.exists /\ mode = "a"
    THEN AppendChecked(f, parse_npy_header(f.bytes, 0), T, data, shape)
    ELSE WriteNpy(<<>>, T, data, shape, shape)

--------------------------------------------------------------------------
(* zlib: crc32.  32-bit values are kept as their four bytes, least         *)
(* significant first.                                                      *)

RECURSIVE XorBits(_, _, _)
XorBits(a, b, n) ==
    IF n = 0 THEN 0
    ELSE ((a + b) % 2) + 2 * XorBits(a \div 2, b \div 2, n - 1)

\* exclusive or of two bytes
XorTable == [a \in 0..255 |-> [b \in 0..255 |-> XorBits(a, b, 8)]]

Xor32(x, y) == <<XorTable[x[1]][y[1]], XorTable[x[2]][y[2]],
                 XorTable[x[3]][y[3]], XorTable[x[4]][y[4]]>>

\* x >> 1
Shr1(x) == <<(x[1] \div 2) + 128 * (x[2] % 2), (x[2] \div 2) + 128 * (x[3] % 2),
             (x[3] \div 2) + 128 * (x[4] % 2), x[4] \div 2>>

CrcPoly == <<32, 131, 184, 237>>                                  \* 0xEDB88320

RECURSIVE CrcRounds(_, _)
CrcRounds(c, n) ==
    IF n = 0 THEN c
    ELSE CrcRounds(IF c[1] % 2 = 1 THEN Xor32(CrcPoly, Shr1(c)) ELSE Shr1(c), n - 1)

CrcTable == [i \in 0..255 |-> CrcRounds(<<i, 0, 0, 0>>, 8)]

\* one byte folded into the running (inverted) checksum
CrcStep(c, byte) == Xor32(CrcTable[XorTable[c[1]][byte]], <<c[2], c[3], c[4], 0>>)

\* the bytes buf[lo..hi] folded in, left to right
RECURSIVE CrcFold(_, _, _, _)
CrcFold(c, buf, lo, hi) ==
    IF Len(c) = 4 /\ lo > hi THEN c
    ELSE IF lo = hi THEN CrcStep(c, buf[lo])
    ELSE CrcFold(CrcFold(c, buf, lo, (lo + hi) \div 2), buf, ((lo + hi) \div 2) + 1, hi)

AllOnes32 == <<255, 255, 255, 255>>

\* crc32(crc, buf, len)
crc32(crc, buf) == Xor32(CrcFold(Xor32(crc, AllOnes32), buf, 1, Len(buf)), AllOnes32)

--------------------------------------------------------------------------
(* Zip records                                                             *)

zip_header_length == 30

zip_footer_length == 22

Suffix_npy == <<46, 110, 112, 121>>                                \* ".npy"

Sig_PK == <<80, 75>>                                               \* "PK"

\* lines 262-275: the local file header of a stored entry
LocalHeader(crc, nbytes, key) ==
    Sig_PK \o LE16(1027) \o LE16(20) \o LE16(0) \o LE16(0) \o LE16(0) \o LE16(0)
      \o crc \o LE32(nbytes) \o LE32(nbytes) \o LE16(Len(key)) \o LE16(0) \o key

\* a record that names the start of the archive as its entry's place
CentralRecord_first(local_header, global_header_offset, key) ==
    Sig_PK \o LE16(513) \o LE16(20) \o SubSeq(local_header, 5, 30)
      \o LE16(0) \o LE16(0) \o LE16(0) \o LE32(0) \o LE32(0) \o key

\* lines 278-288: the central directory record made from a local header
CentralRecord(local_header, global_header_offset, key) ==
    Sig_PK \o LE16(513) \o LE16(20) \o SubSeq(local_header, 5, 30)
      \o LE16(0) \o LE16(0) \o LE16(0) \o LE32(0) \o LE32(global_header_offset) \o key

\* lines 291-302: the end-of-central-directory locator
Footer(nrecs, global_header_size, global_header_offset) ==
    Sig_PK \o LE16(1541) \o LE16(0) \o LE16(0) \o LE16(nrecs) \o LE16(nrecs)
      \o LE32(global_header_size) \o LE32(global_header_offset) \o LE16(0)

FooterThrow(msg) ==
    [ok |-> FALSE, err |-> msg, nrecs |-> 0, global_header_size |-> 0,
     global_header_offset |-> 0]

\* the fields of the 22 bytes read from the end of the stream
FooterFields(footer) ==
    IF LEValue(SubSeq(footer, 5, 6)) # 0 \/ LEValue(SubSeq(footer, 7, 8)) # 0
       \/ LEValue(SubSeq(footer, 9, 10)) # LEValue(SubSeq(footer, 11, 12))
       \/ LEValue(SubSeq(footer, 21, 22)) # 0
    THEN FooterThrow("Unexpected EOCD records")
    ELSE [ok |-> TRUE, err |-> "", nrecs |-> LEValue(SubSeq(footer, 11, 12)),
          global_header_size |-> LEValue(SubSeq(footer, 13, 16)),
          global_header_offset |-> LEValue(SubSeq(footer, 17, 20))]

\* seekg(-22, end) fails on a shorter stream, and the read after it too
parse_zip_footer(b) ==
    IF Len(b) < zip_footer_length THEN FooterThrow("parse_zip_footer: failed to read footer")
    ELSE FooterFields(SubSeq(b, Len(b) - zip_footer_length + 1, Len(b)))

--------------------------------------------------------------------------
(* Archive writer: npz_save                                                *)

\* lines 304-308: the five writes at the write position
WriteEntry(existing, global_header_offset, local_header, npy_header, data, global_header, footer) ==
    SaveResult(TRUE, "",
               FileOf(WriteAt(existing, global_header_offset,
                              local_header \o npy_header \o data \o global_header \o footer)))

\* lines 277-302: directory and locator around the new local header
BuildDirectory(existing, nrecs, global_header_offset, old_global_header, local_header, npy_header, data, key) ==
    WriteEntry(existing, global_header_offset, local_header, npy_header, data,
               old_global_header \o CentralRecord(local_header, global_header_offset, key),
               Footer(nrecs + 1,
                      Len(old_global_header) + Len(CentralRecord(local_header,
                                                                 global_header_offset, key)),
                      global_header_offset + Len(npy_header) + Len(data) + Len(local_header)))

\* lines 254-275: array header, checksum and local header
BuildEntry(existing, nrecs, global_header_offset, old_global_header, key, npy_header, data) ==
    BuildDirectory(existing, nrecs, global_header_offset, old_global_header,
                   LocalHeader(crc32(crc32(<<0, 0, 0, 0>>, npy_header), data),
                               Len(data) + Len(npy_header), key),
                   npy_header, data, key)

WritePosition_shifted(global_header_offset) == global_header_offset + 1

\* where the append branch puts the write position
WritePosition(global_header_offset) == global_header_offset

\* lines 231-244: the existing directory is read and the write position set
AppendEntry(f, footer, key, T, data, shape) ==
    IF ~footer.ok THEN SaveResult(FALSE, footer.err, f)
    ELSE IF Len(ReadN(f.bytes, footer.global_header_offset, footer.global_header_size))
              # footer.global_header_size
         THEN SaveResult(FALSE, "npz_save: header read error while adding to existing zip", f)
    ELSE BuildEntry(f.bytes, footer.nrecs, WritePosition(footer.global_header_offset),
                    ReadN(f.bytes, footer.global_header_offset, footer.global_header_size),
                    key, create_npy_header(T, shape),
                    SubSeq(data, 1, SizeOf(T) * Prod(shape, 1, Len(shape))))

\* line 218 appends ".npy" to the key
npz_save(f, key, T, data, shape, mode) ==
    IF f.exists /\ mode = "a"
    THEN AppendEntry(f, parse_zip_footer(f.bytes), key \o Suffix_npy, T, data, shape)
    ELSE BuildEntry(<<>>, 0, 0, <<>>, key \o Suffix_npy, create_npy_header(T, shape),
                    SubSeq(data, 1, SizeOf(T) * Prod(shape, 1, Len(shape))))

--------------------------------------------------------------------------
(* zlib: inflate of a raw deflate stream, called once with Z_FINISH        *)

Z_OK == 0

Z_STREAM_END == 1

Z_DATA_ERROR == -3

Z_BUF_ERROR == -5

InflateResult(ret, out) == [ret |-> ret, out |-> out]

\* A stored block whose LEN field starts at position p.  A call that cannot
\* finish, for want of input or of room in the output, returns Z_BUF_ERROR.
StoredBlock(comp, p, out, avail_out, final, len) ==
    IF Len(comp) < p + 4 THEN InflateResult(Z_BUF_ERROR, out)
    ELSE IF len + LEValue(SubSeq(comp, p + 3, p + 4)) # 65535
         THEN InflateResult(Z_DATA_ERROR, out)
    ELSE IF Len(comp) < p + 4 + len
         THEN InflateResult(Z_BUF_ERROR,
                            out \o SubSeq(comp, p + 5,
                                          Min2(Len(comp), p + 4 + avail_out - Len(out))))
    ELSE IF Len(out) + len > avail_out
         THEN InflateResult(Z_BUF_ERROR,
                            out \o SubSeq(comp, p + 5, p + 4 + avail_out - Len(out)))
    ELSE IF final THEN InflateResult(Z_STREAM_END, out \o SubSeq(comp, p + 5, p + 4 + len))
    ELSE InflateResult(Z_OK, out \o SubSeq(comp, p + 5, p + 4 + len))

\* The blocks from position p on.  Block type 0 is stored and 3 is
\* reserved; the Huffman-coded types 1 and 2 are not decoded here and no
\* input of this model uses them.
RECURSIVE InflateBlocks(_, _, _, _)
InflateBlocks(comp, p, out, avail_out) ==
    IF p >= Len(comp) THEN InflateResult(Z_BUF_ERROR, out)
    ELSE IF (comp[p + 1] \div 2) % 4 # 0 THEN InflateResult(Z_DATA_ERROR, out)
    ELSE IF StoredBlock(comp, p + 1, out, avail_out, comp[p + 1] % 2 = 1,
                        LEValue(SubSeq(comp, p + 2, p + 3))).ret # Z_OK
         THEN StoredBlock(comp, p + 1, out, avail_out, comp[p + 1] % 2 = 1,
                          LEValue(SubSeq(comp, p + 2, p + 3)))
    ELSE InflateBlocks(comp, p + 5 + LEValue(SubSeq(comp, p + 2, p + 3)),
                       StoredBlock(comp, p + 1, out, avail_out, comp[p + 1] % 2 = 1,
                                   LEValue(SubSeq(comp, p + 2, p + 3))).out,
                       avail_out)

\* inflate(&d_stream, Z_FINISH): the stream's end gives Z_STREAM_END and
\* everything short of it an error, so Z_OK is never the answer
inflate(comp, avail_out) == InflateBlocks(comp, 0, <<>>, avail_out)

--------------------------------------------------------------------------
(* Archive reader: load_the_npz_array and npz_load                         *)

\* cnpy.cpp 250-254: the payload is the tail of the inflated buffer
InflatedArray(buffer_uncompr, h, num_bytes, pos) ==
    IF ~h.ok THEN LoadThrow(h.err)
    ELSE [ok |-> TRUE, err |-> "",
          arr |-> NpyArray(h.shape, h.word_size, h.fortran_order,
                           SubSeq(buffer_uncompr, Len(buffer_uncompr) - num_bytes + 1,
                                  Len(buffer_uncompr))),
          pos |-> pos]

InflateAccepted(ret) == ret = Z_OK

\* cnpy.cpp 239-247: the buffer has uncompr_bytes bytes, zero where inflate
\* wrote nothing
Inflated(r, uncompr_bytes, pos) ==
    IF ~InflateAccepted(r.ret) THEN LoadThrow("Failed inflating buffer.")
    ELSE \* parse_npy_header on the buffer, then the copy of the payload
         LET buffer_uncompr == r.out \o Fill(uncompr_bytes - Len(r.out), 0)
             h == parse_npy_header(buffer_uncompr, 0)
         IN  InflatedArray(buffer_uncompr, h,
                           IF h.ok THEN Prod(h.shape, 1, Len(h.shape)) * h.word_size ELSE 0,
                           pos)

load_the_npz_array(b, p0, compr_bytes, uncompr_bytes) ==
    IF Len(ReadN(b, p0, compr_bytes)) # compr_bytes
    THEN LoadThrow("Failed reading compressed data")
    ELSE Inflated(inflate(ReadN(b, p0, compr_bytes), uncompr_bytes), uncompr_bytes,
                  p0 + compr_bytes)

ArchiveResult(ok, err, arrays_) == [ok |-> ok, err |-> err, arrays |-> arrays_]

\* npz_t with no entry
NoArrays == [n \in {} |-> NullArray]

\* arrays[varname] = array
Assign(arrays_, varname, array) ==
    [n \in (DOMAIN arrays_) \cup {varname} |-> IF n = varname THEN array ELSE arrays_[n]]

\* lines 288-290: the trailing ".npy" is erased
VarName(name) == IF Len(name) >= 4 THEN SubSeq(name, 1, Len(name) - 4) ELSE name

RECURSIVE NpzEntries(_, _, _)

\* lines 306-309: the loaded array is stored under the name and the loop
\* goes on behind it; an exception of the entry's loader ends the call
EntryLoaded(b, arrays_, varname, r) ==
    IF ~r.ok THEN ArchiveResult(FALSE, r.err, NoArrays)
    ELSE NpzEntries(b, r.pos, Assign(arrays_, varname, r.arr))

\* lines 270-310: one turn of the loop, the stream at position pos
NpzEntries(b, pos, arrays_) ==
    LET local_header == ReadN(b, pos, zip_header_length) IN
    IF Len(local_header) # zip_header_length
    THEN ArchiveResult(FALSE, "Failed reading header", NoArrays)
    ELSE IF local_header[3] # 3 \/ local_header[4] # 4
         THEN ArchiveResult(TRUE, "", arrays_)
    ELSE
      LET name_len == LEValue(SubSeq(local_header, 27, 28))
          extra_field_len == LEValue(SubSeq(local_header, 29, 30))
          compr_method == LEValue(SubSeq(local_header, 9, 10))
          compr_bytes == LEValue(SubSeq(local_header, 19, 22))
          uncompr_bytes == LEValue(SubSeq(local_header, 23, 26))
          p == pos + zip_header_length + name_len + extra_field_len
      IN
      IF Len(b) < pos + zip_header_length + name_len
      THEN ArchiveResult(FALSE, "Failed reading variable name", NoArrays)
      ELSE IF Len(b) < p
           THEN ArchiveResult(FALSE, "Failed reading extra field", NoArrays)
      ELSE EntryLoaded(b, arrays_,
                       VarName(ReadN(b, pos + zip_header_length, name_len)),
                       IF compr_method = 0 THEN load_the_npy_file(b, p)
                       ELSE load_the_npz_array(b, p, compr_bytes, uncompr_bytes))

npz_load(f) ==
    IF ~f.exists THEN ArchiveResult(FALSE, "File does not exist", NoArrays)
    ELSE NpzEntries(f.bytes, 0, NoArrays)

--------------------------------------------------------------------------
(* Inputs                                                                  *)

\* the shapes of rank 1..MaxRank with dimension sizes 1..MaxDim
SmallShapes == UNION {[1..r -> 1..MaxDim] : r \in 1..MaxRank}

\* all-ones shapes whose dictionary is about 65535 bytes long: the last one
\* that fits the 2-byte length field, and the ones 2 and 4 ranks above it
BigShapes == {Fill(BigRank + k, 1) : k \in {0, 2, 4}}

Seeds == {0, 100}

\* the caller's buffer: n bytes, all different for n < 256
Data(n, seed) == [i \in 1..n |-> (seed + i) % 256]

NoCall ==
    [op |-> "none", mode |-> "", T |-> "", shape |-> <<>>, data |-> <<>>, key |-> <<>>,
     ok |-> TRUE, err |-> ""]

NoChain == [on |-> FALSE, kept |-> TRUE, word_size |-> 0, shape |-> <<>>, payload |-> <<>>]

--------------------------------------------------------------------------
(* Calls on the single-array file                                          *)

\* The append sequence the growth contract speaks of.  It is on while the
\* file started as an existing fortran-ordered file and every call since
\* has been an append of the same word size, rank and trailing dimensions;
\* shape and payload are what the contract predicts for the file, and kept
\* says that no call of the sequence has thrown.  The sequence ends with
\* the first other call, or with the call after one that threw.
ChainAfter(T, data, shape, mode, ok) ==
    IF chain.on /\ chain.kept /\ mode = "a" /\ SizeOf(T) = chain.word_size
       /\ Len(shape) = Len(chain.shape)
       /\ \A i \in 2..Len(shape) : shape[i] = chain.shape[i]
    THEN [on |-> TRUE, kept |-> ok, word_size |-> chain.word_size,
          shape |-> [chain.shape EXCEPT ![1] = chain.shape[1] + shape[1]],
          payload |-> chain.payload \o data]
    ELSE NoChain

\* npy_save<T>(fname, data, shape, mode)
NpySaveCall(T, shape, seed, mode) ==
    \E data \in {Data(SizeOf(T) * Prod(shape, 1, Len(shape)), seed)} :
      \E r \in {npy_save(npy, T, data, shape, mode)} :
        /\ npy' = r.file
        /\ arr' = NullArray
        /\ last' = [op |-> "npy_save", mode |-> mode, T |-> T, shape |-> shape,
                    data |-> data, key |-> <<>>, ok |-> r.ok, err |-> r.err]
        /\ chain' = ChainAfter(T, data, shape, mode, r.ok)
        /\ UNCHANGED <<npz, header, arrays, saved>>

\* create_npy_header<T>(shape), called on its own
CreateHeader(T, shape) ==
    /\ header' = create_npy_header(T, shape)
    /\ arr' = NullArray
    /\ last' = [NoCall EXCEPT !.op = "create_npy_header", !.T = T, !.shape = shape]
    /\ UNCHANGED <<npy, npz, arrays, chain, saved>>

\* npy_load(fname)
NpyLoad ==
    \E r \in {npy_load(npy)} :
        /\ arr' = r.arr
        /\ last' = [NoCall EXCEPT !.op = "npy_load", !.ok = r.ok, !.err = r.err]
        /\ UNCHANGED <<npy, npz, header, arrays, chain, saved>>

--------------------------------------------------------------------------
(* Specification of the header codec and the single-array round trip       *)

HdrTypes == {"char", "float", "bool", "complex<long double>"}

InitHdr ==
    /\ npy = NoFile
    /\ npz = NoFile
    /\ header = <<>>
    /\ arr = NullArray
    /\ arrays = NoArrays
    /\ saved = <<>>
    /\ last = NoCall
    /\ chain = NoChain

\* Each behaviour is one experiment on a fresh path: a direct header build,
\* or a create-mode save followed by loads.
HdrCreate ==
    /\ last.op = "none"
    /\ \/ \E T \in HdrTypes, shape \in SmallShapes : CreateHeader(T, shape)
       \/ \E shape \in BigShapes : CreateHeader("float", shape)

HdrSave ==
    /\ last.op = "none"
    /\ \/ \E T \in HdrTypes, shape \in SmallShapes, seed \in Seeds :
               NpySaveCall(T, shape, seed, "w")
       \/ \E shape \in BigShapes : NpySaveCall("float", shape, 0, "w")

HdrLoad == npy.exists /\ NpyLoad

NextHdr == HdrCreate \/ HdrSave \/ HdrLoad

SpecHdr == InitHdr /\ [][NextHdr]_vars

--------------------------------------------------------------------------
(* Single-array files written by another producer                          *)

OrderTrue ==                                  \* ', 'fortran_order': True, 'shape': (
    <<39, 44, 32, 39, 102, 111, 114, 116, 114, 97, 110, 95, 111, 114, 100, 101, 114,
      39, 58, 32, 84, 114, 117, 101, 44, 32, 39, 115, 104, 97, 112, 101, 39, 58, 32, 40>>

\* A file as numpy.lib.format writes it, of version major.0: the same
\* dictionary with the order flag given, padded so that the prefix is a
\* multiple of 64 bytes, plus `extra` more padding bytes (extra = 1 gives a
\* version 1.0 file the prefix length this library's own headers have).
ExternalNpy(major, T, shape, fortran_order, extra, data) ==
    LET dict0 == DescrOpen \o <<60, map_type(T)>> \o to_string(SizeOf(T))
                   \o (IF fortran_order THEN OrderTrue ELSE OrderFalse)
                   \o DimsText(shape, 1, Len(shape))
                   \o (IF Len(shape) = 1 THEN <<44>> ELSE <<>>) \o DictClose
        prefix == numpy_magic_length + 2 + (IF major = 1 THEN 2 ELSE 4)
        padlen == 64 - ((prefix + Len(dict0) + 1) % 64)
        text == dict0 \o Fill(padlen + extra, 32) \o <<10>>
    IN  FileOf(numpy_magic \o <<major, 0>>
                 \o (IF major = 1 THEN LE16(Len(text)) ELSE LE32(Len(text)))
                 \o text \o data)

--------------------------------------------------------------------------
(* Specification of the single-array file: create, append, load            *)

NpyTypes == {"char", "short"}

\* leading dimension 1..MaxDim, trailing dimensions all MaxDim - 1 or all MaxDim
NpyShapes ==
    {s \in SmallShapes : \A i \in 2..Len(s) : s[i] >= MaxDim - 1 /\ s[i] = s[2]}

ExternalSeed == 0

CallSeed == 100

InitNpy ==
    /\ npz = NoFile
    /\ header = <<>>
    /\ arr = NullArray
    /\ arrays = NoArrays
    /\ saved = <<>>
    /\ last = NoCall
    /\ \/ npy = NoFile /\ chain = NoChain
       \/ \E T \in NpyTypes, shape \in NpyShapes, fortran_order \in BOOLEAN, extra \in {0, 1} :
            \E data \in {Data(SizeOf(T) * Prod(shape, 1, Len(shape)), ExternalSeed)} :
               /\ npy = ExternalNpy(1, T, shape, fortran_order, extra, data)
               /\ chain = IF fortran_order
                          THEN [on |-> TRUE, kept |-> TRUE, word_size |-> SizeOf(T),
                                shape |-> shape, payload |-> data]
                          ELSE NoChain

NpyCreate == \E T \in NpyTypes, shape \in NpyShapes : NpySaveCall(T, shape, CallSeed, "w")

NpyAppend == \E T \in NpyTypes, shape \in NpyShapes : NpySaveCall(T, shape, CallSeed, "a")

NextNpy == NpyCreate \/ NpyAppend \/ NpyLoad

SpecNpy == InitNpy /\ [][NextNpy]_vars

--------------------------------------------------------------------------
(* Properties of the header codec and the round trip (SpecHdr)             *)

\* the fields of a header as a reader finds them
HeaderMajor(h) == h[7]

HeaderMinor(h) == h[8]

LengthFieldBytes(h) == IF HeaderMajor(h) = 1 THEN 2 ELSE 4

LengthFieldValue(h) == LEValue(SubSeq(h, 9, 8 + LengthFieldBytes(h)))

HeaderTextLen(h) == Len(h) - 8 - LengthFieldBytes(h)

\* C1: a create-mode save followed by a load of the same path returns the
\* saved shape, the element width as word size, the order flag that was
\* written (False) and the saved bytes.
C1_RoundTrip ==
    [][(last.op = "npy_save" /\ last.mode = "w" /\ last'.op = "npy_load")
         => /\ last'.ok
            /\ arr'.shape = last.shape
            /\ arr'.word_size = SizeOf(last.T)
            /\ arr'.fortran_order = FALSE
            /\ arr'.data = last.data]_vars

\* C3: the total length of every header built (magic, version, length
\* field, text with padding and newline) is a multiple of 64.
C3_HeaderAligned == header # <<>> => Len(header) % 64 = 0

\* C4: version 1.0 with a 2-byte field while the text fits in 16 bits,
\* version 2.0 with a 4-byte field beyond, and the stored length is the
\* number of text bytes that follow.
C4_VersionSwitch ==
    header # <<>> =>
        /\ HeaderMinor(header) = 0
        /\ HeaderMajor(header) = (IF HeaderTextLen(header) <= 65535 THEN 1 ELSE 2)
        /\ LengthFieldValue(header) = HeaderTextLen(header)

--------------------------------------------------------------------------
(* Properties of the single-array file (SpecNpy)                           *)

FileHolds(r, shape, payload) == r.ok /\ r.arr.shape = shape /\ r.arr.data = payload

\* C5: from an existing fortran-ordered file of shape (n0, d1..dk), every
\* call of a sequence of appends with shapes (m_i, d1..dk) and the same
\* word size succeeds, and the file then holds shape (n0 + sum m_i, d1..dk)
\* and the original payload followed by the appended blocks in call order.
C5_AppendGrowth ==
    chain.on => chain.kept /\ FileHolds(npy_load(npy), chain.shape, chain.payload)

AppendErrors ==
    {"Appending to existing fortran-order file not supported",
     "Appending to existing file with wrong word size",
     "Appending to existing file with wrong shape"}

HeaderRulesOut(h, T, shape) ==
    /\ h.ok
    /\ \/ ~h.fortran_order
       \/ h.word_size # SizeOf(T)
       \/ Len(h.shape) # Len(shape)

\* the existing file is readable and its order flag, word size or rank
\* rules out the append of (T, shape)
AppendRuledOut(f, T, shape) ==
    f.exists /\ HeaderRulesOut(parse_npy_header(f.bytes, 0), T, shape)

--------------------------------------------------------------------------
(* Specification of the loader on damaged single-array files               *)

LoadTypes == {"char", "float"}

\* the shapes of rank 1..MaxRank whose dimensions are all MaxDim
LoadShapes == {s \in SmallShapes : \A i \in 1..Len(s) : s[i] = MaxDim}

\* Well-formed files: the ones this library writes, and numpy's of both
\* versions and both orders.
InitLoad ==
    /\ npz = NoFile
    /\ header = <<>>
    /\ arr = NullArray
    /\ arrays = NoArrays
    /\ saved = <<>>
    /\ last = NoCall
    /\ chain = NoChain
    /\ \E shape \in LoadShapes :
         \/ \E T \in LoadTypes :
              npy = npy_save(NoFile, T, Data(SizeOf(T) * Prod(shape, 1, Len(shape)), CallSeed),
                             shape, "w").file
         \/ \E major \in {1, 2}, fortran_order \in BOOLEAN :
              npy = ExternalNpy(major, "char", shape, fortran_order, 0,
                                Data(Prod(shape, 1, Len(shape)), ExternalSeed))

Damages == {"cut", "wrong_magic", "wrong_version"}

Damaged(op, b) ==
    /\ npy' = FileOf(b)
    /\ last' = [NoCall EXCEPT !.op = op]
    /\ UNCHANGED <<npz, header, arr, arrays, chain, saved>>

\* the file loses its end: only its first k bytes are left
Cut ==
    /\ last.op = "none"
    /\ \E k \in 0..(Len(npy.bytes) - 1) : Damaged("cut", SubSeq(npy.bytes, 1, k))

MagicBytes == {0, 78, 147}

\* one byte of the magic string is another one
WrongMagic ==
    /\ last.op = "none"
    /\ \E i \in 1..numpy_magic_length, byte \in MagicBytes :
         /\ byte # npy.bytes[i]
         /\ Damaged("wrong_magic", [npy.bytes EXCEPT ![i] = byte])

SupportedVersions == {<<1, 0>>, <<2, 0>>}

\* the version bytes name a version the parser does not know
WrongVersion ==
    /\ last.op = "none"
    /\ \E major \in 0..3, minor \in 0..1 :
         /\ <<major, minor>> \notin SupportedVersions
         /\ Damaged("wrong_version",
                    [npy.bytes EXCEPT ![numpy_magic_length + 1] = major,
                                      ![numpy_magic_length + 2] = minor])

NextLoad == Cut \/ WrongMagic \/ WrongVersion \/ NpyLoad

SpecLoad == InitLoad /\ [][NextLoad]_vars

--------------------------------------------------------------------------
(* Properties of the loader on damaged files (checked under SpecLoad)      *)

\* C8 (malformed input rejection): when a well-formed single-array file has
\* been cut short anywhere (inside the magic string, the version, the
\* length field, the header text or the payload), or one byte of its magic
\* string has been changed, or its version bytes name neither 1.0 nor 2.0,
\* the load that follows throws and returns no array.
C8_MalformedRejected ==
    [][(last.op \in Damages /\ last'.op = "npy_load")
         => /\ ~last'.ok
            /\ arr' = NullArray]_vars

\* a load has failed on a file cut inside its payload
C8_Witness ==
    /\ last.op = "npy_load" /\ ~last.ok
    /\ last.err = "load_the_npy_file: failed fread"
    /\ npy.exists /\ Len(npy.bytes) > 128

--------------------------------------------------------------------------
(* Archives written by another producer                                    *)

\* a local file header with the compression method and both sizes given
ExternalLocalHeader(method, crc, compr_bytes, uncompr_bytes, name) ==
    Sig_PK \o LE16(1027) \o LE16(20) \o LE16(0) \o LE16(method) \o LE16(0) \o LE16(0)
      \o crc \o LE32(compr_bytes) \o LE32(uncompr_bytes) \o LE16(Len(name)) \o LE16(0)
      \o name

\* a raw deflate stream holding the bytes in one stored block, the last one
Deflated(bytes) == <<1>> \o LE16(Len(bytes)) \o LE16(65535 - Len(bytes)) \o bytes

ExternalArchive(local_header, body, name) ==
    FileOf(local_header \o body \o CentralRecord(local_header, 0, name)
             \o Footer(1, Len(CentralRecord(local_header, 0, name)),
                       Len(local_header) + Len(body)))

\* A one-entry archive as numpy.savez (method 0, stored) and
\* numpy.savez_compressed (method 8, deflate) lay it out: the entry is the
\* single-array file `file` under the name key + ".npy".
ExternalNpz(method, key, file) ==
    ExternalArchive(ExternalLocalHeader(method, crc32(<<0, 0, 0, 0>>, file),
                                        IF method = 0 THEN Len(file)
                                        ELSE Len(Deflated(file)),
                                        Len(file), key \o Suffix_npy),
                    IF method = 0 THEN file ELSE Deflated(file),
                    key \o Suffix_npy)

--------------------------------------------------------------------------
(* Calls on the archive                                                    *)

SavedEntry(origin, method, key, T, shape, data) ==
    [origin |-> origin, method |-> method, key |-> key, word_size |-> SizeOf(T),
     shape |-> shape, data |-> data]

\* npz_save<T>(zipname, key, data, shape, mode); the buffer depends on the
\* key, and shape and buffer are remembered in saved
NpzSaveCall(key, T, shape, mode) ==
    \E data \in {Data(SizeOf(T) * Prod(shape, 1, Len(shape)), key[1])} :
      \E r \in {npz_save(npz, key, T, data, shape, mode)} :
        /\ npz' = r.file
        /\ arrays' = NoArrays
        /\ last' = [NoCall EXCEPT !.op = "npz_save", !.mode = mode, !.T = T, !.key = key,
                                   !.ok = r.ok, !.err = r.err]
        /\ saved' = IF ~r.ok THEN saved
                    ELSE IF npz.exists /\ mode = "a"
                         THEN Append(saved, SavedEntry("npz_save", 0, key, T, shape, data))
                    ELSE <<SavedEntry("npz_save", 0, key, T, shape, data)>>
        /\ UNCHANGED <<npy, header, arr, chain>>

\* npz_load(fname)
NpzLoad ==
    \E r \in {npz_load(npz)} :
        /\ arrays' = r.arrays
        /\ last' = [NoCall EXCEPT !.op = "npz_load", !.ok = r.ok, !.err = r.err]
        /\ UNCHANGED <<npy, npz, header, arr, chain, saved>>

--------------------------------------------------------------------------
(* Specification of the archive: create, append, load                      *)

MaxEntries == 3      \* archives grow to at most MaxEntries entries

Keys == {<<97>>, <<98>>, <<99, 100>>}                              \* "a", "b", "cd"

ExternalKey == <<120>>                                             \* "x"

NpzTypes == {"char", "short"}

\* the shape of rank MaxRank whose dimensions are all MaxDim
NpzShapes == {s \in SmallShapes : Len(s) = MaxRank /\ \A i \in 1..Len(s) : s[i] = MaxDim}

Methods == {0, 8}

InitNpz ==
    /\ npy = NoFile
    /\ header = <<>>
    /\ arr = NullArray
    /\ arrays = NoArrays
    /\ last = NoCall
    /\ chain = NoChain
    /\ \/ npz = NoFile /\ saved = <<>>
       \/ \E method \in Methods, shape \in NpzShapes :
            \E data \in {Data(2 * Prod(shape, 1, Len(shape)), ExternalKey[1])} :
               /\ npz = ExternalNpz(method, ExternalKey,
                                    ExternalNpy(1, "short", shape, FALSE, 0, data).bytes)
               /\ saved = <<SavedEntry("external", method, ExternalKey, "short", shape,
                                       data)>>

\* a create-mode save; the near-limit shapes are tried on a fresh path only
NpzCreate ==
    \/ \E key \in Keys, T \in NpzTypes, shape \in NpzShapes : NpzSaveCall(key, T, shape, "w")
    \/ /\ ~npz.exists
       /\ \E shape \in BigShapes : NpzSaveCall(<<97>>, "float", shape, "w")

\* an append-mode save, on archives of small arrays
NpzAppend ==
    /\ Len(saved) < MaxEntries
    /\ \A i \in 1..Len(saved) : Len(saved[i].shape) <= MaxRank
    /\ \E key \in Keys, T \in NpzTypes, shape \in NpzShapes : NpzSaveCall(key, T, shape, "a")

\* an append-mode save of a near-limit shape under the key "a", into an
\* archive that holds one char array under that key
NpzAppendNear ==
    /\ Len(saved) = 1
    /\ saved[1].origin = "npz_save" /\ saved[1].key = <<97>> /\ saved[1].word_size = 1
    /\ Len(saved[1].shape) <= MaxRank
    /\ \E shape \in BigShapes : NpzSaveCall(<<97>>, "float", shape, "a")

NextNpz == NpzCreate \/ NpzAppend \/ NpzLoad \/ NpzAppendNear

SpecNpz == InitNpz /\ [][NextNpz]_vars

--------------------------------------------------------------------------
(* Properties of the archive (checked under SpecNpz)                       *)

SavedKeys == {saved[i].key : i \in 1..Len(saved)}

DistinctKeys == \A i, j \in 1..Len(saved) : saved[i].key = saved[j].key => i = j

\* the loaded mapping has the entry e as it was saved
Returned(e) ==
    /\ e.key \in DOMAIN arrays
    /\ arrays[e.key].shape = e.shape
    /\ arrays[e.key].word_size = e.word_size
    /\ arrays[e.key].data = e.data

\* C2 (archive round trip): when an archive was made by one create-mode
\* save followed by append-mode saves with pairwise distinct keys, a load
\* succeeds and returns a mapping with exactly the saved keys, each array
\* with the shape, element width and payload bytes that were saved.
C2_ArchiveRoundTrip ==
    (/\ last.op = "npz_load"
     /\ saved # <<>>
     /\ \A i \in 1..Len(saved) : saved[i].origin = "npz_save"
     /\ DistinctKeys)
    => /\ last.ok
       /\ DOMAIN arrays = SavedKeys
       /\ \A i \in 1..Len(saved) : Returned(saved[i])

\* C7 (compressed entries): when the archive holds an entry stored with the
\* deflate method (a well-formed stream of the recorded sizes), a load
\* succeeds and returns for it the shape, element width and payload bytes
\* of the array that was compressed.
C7_CompressedDecode ==
    (/\ last.op = "npz_load"
     /\ DistinctKeys
     /\ \E i \in 1..Len(saved) : saved[i].method = 8)
    => /\ last.ok
       /\ \A i \in 1..Len(saved) : saved[i].method = 8 => Returned(saved[i])

\* The archive file as a zip reader sees it.
EocdAt(b) == Len(b) - zip_footer_length

EocdCount(b) == LEValue(SubSeq(b, EocdAt(b) + 11, EocdAt(b) + 12))

EocdDirSize(b) == LEValue(SubSeq(b, EocdAt(b) + 13, EocdAt(b) + 16))

EocdDirOffset(b) == LEValue(SubSeq(b, EocdAt(b) + 17, EocdAt(b) + 20))

\* the positions of the local file headers met from position pos on, each
\* followed by its name, its extra field and its payload; the last element
\* is the position where no further local header starts
RECURSIVE LocalHeaders(_, _)
LocalHeaders(b, pos) ==
    IF SubSeq(b, pos + 1, pos + 4) # <<80, 75, 3, 4>> THEN <<pos>>
    ELSE <<pos>> \o LocalHeaders(b, pos + zip_header_length
                                      + LEValue(SubSeq(b, pos + 27, pos + 28))
                                      + LEValue(SubSeq(b, pos + 29, pos + 30))
                                      + LEValue(SubSeq(b, pos + 19, pos + 22)))

\* length of the central directory record at position pos: 46 bytes and
\* its name, extra field and comment
RecordLength(b, pos) ==
    46 + LEValue(SubSeq(b, pos + 29, pos + 30)) + LEValue(SubSeq(b, pos + 31, pos + 32))
       + LEValue(SubSeq(b, pos + 33, pos + 34))

\* the n central directory records from position pos on: where each
\* starts and the local header offset it records
RECURSIVE Records(_, _, _)
Records(b, pos, n) ==
    IF n = 0 \/ SubSeq(b, pos + 1, pos + 4) # <<80, 75, 1, 2>> THEN <<>>
    ELSE <<[pos |-> pos, len |-> RecordLength(b, pos),
            offset |-> LEValue(SubSeq(b, pos + 43, pos + 46))]>>
           \o Records(b, pos + RecordLength(b, pos), n - 1)

RECURSIVE SumLen(_, _)
SumLen(recs, i) == IF i > Len(recs) THEN 0 ELSE recs[i].len + SumLen(recs, i + 1)

DirectoryIntact(b, locals, recs) ==
    /\ EocdCount(b) = Len(saved)
    /\ Len(locals) = Len(saved) + 1
    /\ EocdDirOffset(b) = locals[Len(locals)]
    /\ Len(recs) = Len(saved)
    /\ EocdDirSize(b) = SumLen(recs, 1)
    /\ EocdDirOffset(b) + EocdDirSize(b) = EocdAt(b)
    /\ \A i \in 1..Len(recs) : recs[i].offset = locals[i]

\* C6 (directory integrity): after every successful save into an archive,
\* the footer's entry count is the number of entries written so far, the
\* directory offset is the position right after the last entry's payload
\* byte, the directory size is the sum of the lengths of the directory
\* records, and each record's offset is the position where that entry's
\* local header starts.
C6_DirectoryIntegrity ==
    (last.op = "npz_save" /\ last.ok)
    => DirectoryIntact(npz.bytes, LocalHeaders(npz.bytes, 0),
                       Records(npz.bytes, EocdDirOffset(npz.bytes), EocdCount(npz.bytes)))

\* a third entry has been appended
C6_Witness ==
    /\ last.op = "npz_save" /\ last.mode = "a" /\ last.ok
    /\ Len(saved) = 3

\* what an append into the archive old, giving new, leaves and writes: off
\* and size locate the directory of old, name is the entry's name
AppendFrame(old, new, off, size, name) ==
    /\ SubSeq(new, 1, off) = SubSeq(old, 1, off)
    /\ SubSeq(new, off + 1, off + 4) = <<80, 75, 3, 4>>
    /\ SubSeq(new, off + zip_header_length + 1, off + zip_header_length + Len(name)) = name
    /\ EocdDirOffset(new) > off
    /\ SubSeq(new, EocdDirOffset(new) + 1, EocdDirOffset(new) + size)
         = SubSeq(old, off + 1, off + size)
    /\ EocdDirSize(new) = size + 46 + Len(name)
    /\ SubSeq(new, EocdDirOffset(new) + size + 1, EocdDirOffset(new) + size + 4)
         = <<80, 75, 1, 2>>
    /\ LEValue(SubSeq(new, EocdDirOffset(new) + size + 43, EocdDirOffset(new) + size + 46))
         = off
    /\ SubSeq(new, EocdDirOffset(new) + size + 47, EocdDirOffset(new) + size + 46 + Len(name))
         = name

\* C10 (archive append frame): a successful append-mode save into an
\* existing archive leaves every byte before the old directory offset as it
\* was, starts writing the new entry's local header at the old directory
\* offset, and emits the old directory records unchanged and in order
\* before the one new record.
C10_AppendFrame ==
    [][(last'.op = "npz_save" /\ last'.mode = "a" /\ last'.ok /\ npz.exists /\ npz' # npz)
         => AppendFrame(npz.bytes, npz'.bytes, EocdDirOffset(npz.bytes),
                        EocdDirSize(npz.bytes), last'.key \o Suffix_npy)]_vars

\* an entry has been appended to an archive that another producer wrote
C10_Witness ==
    /\ last.op = "npz_save" /\ last.mode = "a" /\ last.ok
    /\ Len(saved) >= 2 /\ saved[1].origin = "external"

--------------------------------------------------------------------------
(* Properties of the header rewrite (checked under SpecNpy)                *)

\* what an append of data into the file old, giving new, keeps: the
\* header's length (the position behind the header text), the stored
\* payload, and the new bytes right behind it
RewriteInPlace(old, new, old_length, data) ==
    /\ parse_npy_header(new, 0).pos = old_length
    /\ SubSeq(new, old_length + 1, Len(old)) = SubSeq(old, old_length + 1, Len(old))
    /\ SubSeq(new, Len(old) + 1, Len(new)) = data

\* C11 (in-place header rewrite): in every successful append-mode save into
\* an existing file, the header rewritten at offset 0 is exactly as long as
\* the header it replaces, so no byte of the stored payload is overwritten
\* and the new bytes start right behind the old payload.
C11_RewriteInPlace ==
    [][(last'.op = "npy_save" /\ last'.mode = "a" /\ last'.ok /\ npy.exists)
         => RewriteInPlace(npy.bytes, npy'.bytes, parse_npy_header(npy.bytes, 0).pos,
                           last'.data)]_vars

--------------------------------------------------------------------------
(* Specification of the single-array file with the near-limit shapes       *)

\* the last call was given a near-limit shape
NearLimit == Len(last.shape) > MaxRank

\* a create-mode save of a near-limit shape, tried on a fresh path only
OwnBig ==
    /\ ~npy.exists
    /\ last.op = "none"
    /\ \E shape \in BigShapes : NpySaveCall("float", shape, CallSeed, "w")

\* the append-mode save of the same shape that follows it
OwnBigAppend ==
    /\ NearLimit
    /\ last.mode = "w"
    /\ NpySaveCall("float", last.shape, CallSeed, "a")

\* the calls of the small shapes
OwnCreate == ~NearLimit /\ NpyCreate

OwnAppend == ~NearLimit /\ NpyAppend

OwnLoad == ~NearLimit /\ NpyLoad

NextOwn == OwnCreate \/ OwnAppend \/ OwnLoad \/ OwnBig \/ OwnBigAppend

SpecOwn == InitNpy /\ [][NextOwn]_vars

--------------------------------------------------------------------------
(* Properties of the writer's own files (checked under SpecOwn)            *)

\* C12 (no second append): every header written by a successful save
\* declares fortran_order False (its first 64 bytes hold that entry of the
\* dictionary), and an append-mode save that follows a successful save on
\* the same file throws the order-mismatch error and leaves the file as it
\* was.
C12_NoSecondAppend ==
    [][(last.op = "npy_save" /\ last.ok /\ last'.op = "npy_save" /\ last'.mode = "a")
         => /\ Find(SubSeq(npy.bytes, 1, 64), OrderFalse) # npos
            /\ ~last'.ok
            /\ last'.err = "Appending to existing fortran-order file not supported"
            /\ npy' = npy]_vars

--------------------------------------------------------------------------
(* Properties of repeated keys in the archive (checked under SpecNpz)      *)

\* two of the local headers at the positions locals[1..n] are followed
\* by the same stored name
NameTwice(b, locals, n) ==
    \E i, j \in 1..n :
       /\ i < j
       /\ SubSeq(b, locals[i] + zip_header_length + 1,
                 locals[i] + zip_header_length
                   + LEValue(SubSeq(b, locals[i] + 27, locals[i] + 28)))
            = SubSeq(b, locals[j] + zip_header_length + 1,
                     locals[j] + zip_header_length
                       + LEValue(SubSeq(b, locals[j] + 27, locals[j] + 28)))

\* the last entry saved under the key of saved[i]
LaterSave(i) ==
    saved[CHOOSE j \in i..Len(saved) :
            /\ saved[j].key = saved[i].key
            /\ \A k \in (j + 1)..Len(saved) : saved[k].key # saved[i].key]

\* C13 (repeated keys): when an archive made by this writer has had a key
\* saved into it more than once, it holds two entries with the same stored
\* name, the locator's entry count counts every save, and a load succeeds
\* and returns under each key the array of the latest save of that key, so
\* the mapping has fewer entries than the locator reports.
C13_RepeatedKey ==
    (/\ last.op = "npz_load"
     /\ \A i \in 1..Len(saved) : saved[i].origin = "npz_save"
     /\ ~DistinctKeys)
    => /\ NameTwice(npz.bytes, LocalHeaders(npz.bytes, 0), Len(saved))
       /\ EocdCount(npz.bytes) = Len(saved)
       /\ last.ok
       /\ DOMAIN arrays = SavedKeys
       /\ \A i \in 1..Len(saved) : Returned(LaterSave(i))
       /\ Cardinality(DOMAIN arrays) < EocdCount(npz.bytes)

====
